---- MODULE Spec2Model ----
(***************************************************************************)
(* Model of the booking API of src/server.js (the same handlers appear,    *)
(* without comments, in src/unnamed/part_000).                             *)
(*                                                                         *)
(* POST /bookings is an async handler: every `await` is a point where the  *)
(* event loop may run something else, so each action below is the code     *)
(* that runs between two awaits.  The relational store and the connection  *)
(* pool are modelled by the interface the handler uses: a statement either *)
(* succeeds, fails with a store error (the transaction becomes aborted),   *)
(* or fails because the connection is lost (the server discards the        *)
(* transaction and every later query on that client is rejected).          *)
(***************************************************************************)
EXTENDS Integers, Sequences, FiniteSets

\* ---------------------------------------------------------------- bounds
MaxReqs == 2      \* requests served one after another in Spec
NSlots == 2       \* handler activations that can exist at once
PoolSize == 2     \* connections the pool may open

Reqs == 1..NSlots
Conns == 1..PoolSize

\* ------------------------------------------------------------ JS values
\* A JSON value of the request body: its JS type and its text.
Undef == [t |-> "undefined", v |-> "undefined"]
Null == [t |-> "null", v |-> "null"]
Num(s) == [t |-> "number", v |-> s]
Str(s) == [t |-> "string", v |-> s]
Arr(s) == [t |-> "array", v |-> s]     \* the one-element array [s]
True == [t |-> "boolean", v |-> "true"]
False == [t |-> "boolean", v |-> "false"]

\* Texts that JS reads as a number, with the text JS prints for that number.
NumericText == {"0", "1", "2", "3", "4", "6", "7", "8", "9", "12", "12.5", "Infinity"}

\* `!v`'s complement: JS truthiness.
Truthy(x) ==
  CASE x.t = "undefined" -> FALSE
    [] x.t = "null" -> FALSE
    [] x.t = "number" -> x.v \notin {"0", "NaN"}
    [] x.t = "string" -> x.v # ""
    [] x.t = "boolean" -> x.v = "true"
    [] OTHER -> TRUE

\* String(v)
String(x) == x.v

\* Number(v), as the text of the resulting number.
Number(x) ==
  CASE x.t = "undefined" -> "NaN"
    [] x.t = "null" -> "0"
    [] x.t = "number" -> x.v
    [] OTHER -> IF x.v = "" THEN "0"
                ELSE IF x.v \in NumericText THEN x.v ELSE "NaN"

\* toNum(v): null for undefined/null, Number(v) otherwise.
toNum(x) == IF x.t \in {"undefined", "null"} THEN Null ELSE Num(Number(x))

\* Number.isNaN(v): true only for the number NaN (false for null).
IsNaN(x) == x.t = "number" /\ x.v = "NaN"

\* new Date(s).toISOString() for the texts that parse; "" when the Date is
\* invalid.
DateISO(s) ==
  CASE s = "2024-01-01" -> "2024-01-01T00:00:00.000Z"
    [] s = "2024-01-01T00:00:00.000Z" -> "2024-01-01T00:00:00.000Z"
    [] OTHER -> ""

\* (variant: taken_at passed on without the validity check)
TakenAtParamUnchecked(x) == IF Truthy(x) THEN Str(x.v) ELSE Null

\* takenAtValid ? takenAtParam.toISOString() : null, for the taken_at values
\* of the request domain (absent or a string).
TakenAtParam(x) ==
  IF Truthy(x) /\ x.t = "string" /\ DateISO(x.v) # "" THEN Str(DateISO(x.v)) ELSE Null

\* COALESCE($6::timestamptz, NOW())
CapturedAt(p) == IF p = Null THEN "NOW()" ELSE p.v

\* s3.getSignedUrl('getObject', {Key: key}) when it succeeds
SignedUrl(key) == "https://bucket.s3/" \o key \o "?X-Amz-Expires=3600"

\* ------------------------------------------------------------ validation
MsgRequired == "shift_id and type are required"
MsgType == "type must be 'on' or 'off'"
MsgCoord == "lat/lng must be numbers if provided"
NoMsg == ""

\* (variant: the coordinate check left out)
ValidationErrorNoCoord(q) ==
  IF ~Truthy(q.shift_id) \/ ~Truthy(q.type) THEN MsgRequired
  ELSE IF String(q.type) \notin {"on", "off"} THEN MsgType
  ELSE NoMsg

\* (variant: the type check made before the required-fields check)
ValidationErrorTypeFirst(q) ==
  IF String(q.type) \notin {"on", "off"} THEN MsgType
  ELSE IF ~Truthy(q.shift_id) \/ ~Truthy(q.type) THEN MsgRequired
  ELSE IF \/ (q.lat # Undef /\ IsNaN(toNum(q.lat)))
          \/ (q.lng # Undef /\ IsNaN(toNum(q.lng))) THEN MsgCoord
  ELSE NoMsg

\* The three early returns of the handler, in source order; NoMsg when the
\* request goes on to BEGIN.
ValidationError(q) ==
  IF ~Truthy(q.shift_id) \/ ~Truthy(q.type) THEN MsgRequired
  ELSE IF String(q.type) \notin {"on", "off"} THEN MsgType
  ELSE IF \/ (q.lat # Undef /\ IsNaN(toNum(q.lat)))
          \/ (q.lng # Undef /\ IsNaN(toNum(q.lng))) THEN MsgCoord
  ELSE NoMsg

\* ---------------------------------------------------------- request body
\* Request bodies of the validation-centred specification SpecV.
ShiftIdVals == {Undef, Num("0"), Num("1"), Str("1"), Num("9")}
TypeVals == {Undef, Str("on"), Str("off"), Str("break"), Arr("on")}
LatVals == {Undef, Null, Num("12"), Str("12.5"), Str("abc"), Str(""), Str("Infinity")}
LngVals == {Undef, Num("3"), Str("abc")}
PhotoKeyVals == {Undef, Str(""), Str("k1")}
TakenAtVals == {Undef, Null, Str("not-a-date"), Str("2024-01-01")}

Bodies ==
  [shift_id : ShiftIdVals, type : TypeVals, lat : LatVals, lng : LngVals,
   photo_key : PhotoKeyVals, taken_at : TakenAtVals]

\* Request bodies of the multi-request specification Spec: one value per
\* branch of the handler.
SeqBodies ==
  [shift_id : {Undef, Num("1"), Num("9")}, type : {Str("on"), Str("break")},
   lat : {Undef, Str("abc")}, lng : {Undef},
   photo_key : {Undef, Str("k1")}, taken_at : {Undef}]

\* Concurrent requests are for distinct shifts: the existing shift and the
\* unknown shift that activation r may name.
SlotShift == <<"1", "2", "3", "4">>
SlotUnknown == <<"6", "7", "8", "9">>

\* Request bodies of the concurrent specification SpecC for activation r:
\* a valid booking with a photo, one for an unknown shift, an invalid one.
ConcBodies(r) ==
  {[shift_id |-> Num(s), type |-> Str(ty), lat |-> Undef, lng |-> Undef,
    photo_key |-> Str("k1"), taken_at |-> Undef] :
     s \in {SlotShift[r], SlotUnknown[r]}, ty \in {"on"}}
  \cup {[shift_id |-> Num(SlotShift[r]), type |-> Str("break"), lat |-> Undef,
          lng |-> Undef, photo_key |-> Str("k1"), taken_at |-> Undef]}

NoBody ==
  [shift_id |-> Undef, type |-> Undef, lat |-> Undef, lng |-> Undef,
   photo_key |-> Undef, taken_at |-> Undef]

\* ------------------------------------------------------------ the store
\* Shifts that exist in the (externally owned) shifts table.
Shifts == {"1", "2", "3", "4"}

NullId == 0       \* SQL NULL / JS null for photoId

\* Error objects thrown by client.query / signPhotoUrl.  code "" stands for
\* an error without a `code` property.
NoErr == [code |-> "none", detail |-> "", message |-> ""]
StoreErr(code) ==
  [code |-> code,
   detail |-> IF code = "23503" THEN "Key is not present in table." ELSE "",
   message |-> "store error " \o code]
SignErr == [code |-> "", detail |-> "", message |-> "CredentialsError"]

FK == "23503"          \* foreign_key_violation
Internal == "XX000"    \* any other error reported by the store
ConnLost == "08006"    \* the connection failed while the query was in flight

\* Outcomes of the statements the handler issues.
BeginOutcomes == {"ok", Internal, ConnLost}
InsertOutcomes == {"ok", FK, Internal, ConnLost}
CommitOutcomes == {"ok", FK, Internal, ConnLost}
RollbackOutcomes == {"ok", ConnLost}

\* -------------------------------------------------------------- state
VARIABLES
  pc,            \* per activation: where the handler is suspended
  req,           \* per activation: req.body
  client,        \* per activation: the pool client (0: none)
  err,           \* per activation: the exception caught (e)
  photoId,       \* per activation: let photoId
  photoUrl,      \* per activation: let photoUrl
  br,            \* per activation: br.rows (set of the returned row)
  resp,          \* per activation: responses sent on res, in order
  log,           \* per activation: what the handler did, in order
  cs,            \* per connection: "closed", "none" (no transaction),
                 \*   "open", "aborted", "dead"
  holder,        \* per connection: activation that checked it out (0: none)
  idle,          \* the pool's idle clients (last is handed out first)
  pendPhotos,    \* per connection: photo rows written, not yet committed
  pendBookings,  \* per connection: booking rows written, not yet committed
  photos,        \* committed rows of table photos
  bookings,      \* committed rows of table bookings
  nextPhotoId,   \* photos_id_seq
  nextBookingId, \* bookings_id_seq
  arrivals,      \* requests received so far
  ep             \* last response of GET /health and of POST /photos/presign

vars ==
  <<pc, req, client, err, photoId, photoUrl, br, resp, log, cs, holder, idle,
    pendPhotos, pendBookings, photos, bookings, nextPhotoId, nextBookingId,
    arrivals, ep>>

NoConn == 0

\* Whoever holds a pool client for the query of GET /health.
HealthQuery == NSlots + 1

\* Responses of GET /health and POST /photos/presign (NoReply: none yet).
Reply(status, ok, error, key, presigned, time) ==
  [status |-> status, ok |-> ok, error |-> error, key |-> key,
   presigned |-> presigned, time |-> time]
NoReply == Reply(0, Undef, Undef, Undef, Undef, Undef)

Init ==
  /\ pc = [r \in Reqs |-> "idle"]
  /\ req = [r \in Reqs |-> NoBody]
  /\ client = [r \in Reqs |-> NoConn]
  /\ err = [r \in Reqs |-> NoErr]
  /\ photoId = [r \in Reqs |-> NullId]
  /\ photoUrl = [r \in Reqs |-> Null]
  /\ br = [r \in Reqs |-> {}]
  /\ resp = [r \in Reqs |-> <<>>]
  /\ log = [r \in Reqs |-> <<>>]
  /\ cs = [c \in Conns |-> "closed"]
  /\ holder = [c \in Conns |-> 0]
  /\ idle = <<>>
  /\ pendPhotos = [c \in Conns |-> {}]
  /\ pendBookings = [c \in Conns |-> {}]
  /\ photos = {}
  /\ bookings = {}
  /\ nextPhotoId = 1
  /\ nextBookingId = 1
  /\ arrivals = 0
  /\ ep = [health |-> NoReply, presign |-> NoReply]

\* ------------------------------------------------------ helper operators
Upd(f, k, x) == [f EXCEPT ![k] = x]
Min(S) == CHOOSE x \in S : \A y \in S : x <= y
Closed == {c \in Conns : cs[c] = "closed"}
Final == {"done", "crashed"}

\* The outcomes a statement can have on client c: a client whose
\* connection is lost rejects every query; inside an aborted transaction
\* every statement but ROLLBACK is refused.
Possible(c, outs) ==
  IF cs[c] = "dead" THEN {ConnLost}
  ELSE IF cs[c] = "aborted" THEN outs \ {"ok", FK}
  ELSE outs

RollbackPossible(c) == IF cs[c] = "dead" THEN {ConnLost} ELSE RollbackOutcomes

\* State of the connection after statement outcome o (o # "ok").
Failed(c, o) ==
  IF o = ConnLost THEN Upd(cs, c, "dead")
  ELSE IF cs[c] = "open" THEN Upd(cs, c, "aborted")
  ELSE cs

\* Uncommitted rows of client c after a failed statement: the server drops
\* them when the connection is lost, ROLLBACK drops them otherwise.
Dropped(pend, c, o) == IF o = ConnLost THEN Upd(pend, c, {}) ELSE pend

\* (variant: ROLLBACK that leaves the rows of the transaction on the session)
RollbackPendingKept(pend, c) == pend

\* (variant: ROLLBACK that discards the uncommitted rows of every session)
RollbackPendingAll(pend, c) == [x \in Conns |-> {}]

\* Uncommitted rows after ROLLBACK on client c.
RollbackPending(pend, c) == Upd(pend, c, {})

\* (variant: COMMIT that makes nothing durable)
CommittedNothing(table, pend, c) == table

\* Committed table after COMMIT on client c.
Committed(table, pend, c) == table \cup pend[c]

\* (variant: the rejection of the awaited statement is swallowed)
AfterStmtSwallowed(o, next) == next

\* Where control goes when an awaited statement settles with outcome o:
\* a rejected await throws into the catch block, which issues ROLLBACK.
AfterStmt(o, next) == IF o = "ok" THEN next ELSE "rollback"

\* signPhotoUrl(key) when s3.getSignedUrl does not throw.
signPhotoUrl(key) == IF key = "" THEN Null ELSE Str(SignedUrl(key))

\* The responses of POST /bookings.
ValidationResponse(m) ==
  [status |-> 400, ok |-> False, error |-> Str(m), detail |-> Undef,
   booking |-> {}, photo_url |-> Undef]
ErrorResponse(e) ==
  IF e.code = FK
  THEN [status |-> 400, ok |-> False, error |-> Str("foreign_key_violation"),
        detail |-> Str(e.detail), booking |-> {}, photo_url |-> Undef]
  ELSE [status |-> 500, ok |-> False, error |-> Str("server_error"),
        detail |-> Undef, booking |-> {}, photo_url |-> Undef]
CreatedResponse(rows, url) ==
  [status |-> 201, ok |-> True, error |-> Undef, detail |-> Undef,
   booking |-> rows, photo_url |-> url]

\* (variant: the booking is written without its photo link)
BookingRowUnlinked(q, id, pid) ==
  [id |-> id, shift_id |-> Number(q.shift_id), type |-> String(q.type),
   lat |-> toNum(q.lat), lng |-> toNum(q.lng), photo_id |-> NullId,
   captured_at |-> CapturedAt(TakenAtParam(q.taken_at))]

\* What the client gets when the handler's promise rejects: Express 4
\* leaves the rejection unhandled and nothing is sent; Express 5 passes it
\* to its default error handler, which sends a 500 page (not JSON).
FrameworkError ==
  [status |-> 500, ok |-> Undef, error |-> Undef, detail |-> Undef,
   booking |-> {}, photo_url |-> Undef]
Unhandled(r, fw) == IF fw THEN Upd(resp, r, Append(resp[r], FrameworkError)) ELSE resp

\* The row the booking INSERT returns for body q.
BookingRow(q, id, pid) ==
  [id |-> id, shift_id |-> Number(q.shift_id), type |-> String(q.type),
   lat |-> toNum(q.lat), lng |-> toNum(q.lng), photo_id |-> pid,
   captured_at |-> CapturedAt(TakenAtParam(q.taken_at))]

\* The outcomes of the booking INSERT: the store enforces the foreign key
\* bookings.shift_id -> shifts.
BookingOutcomes(q) ==
  IF Number(q.shift_id) \in Shifts THEN {"ok", Internal, ConnLost}
  ELSE {FK, ConnLost}

\* (variant: release() placed after the catch block instead of in finally,
\* so that it is skipped when the catch block throws)
FinallyAfterCatch(r, csNew, keep, events) ==
  LET c == client[r]
      skip == events = <<"ROLLBACK_FAILED">> IN
  /\ holder' = IF skip THEN holder ELSE Upd(holder, c, 0)
  /\ cs' = IF csNew[c] = "dead" /\ ~keep /\ ~skip THEN Upd(csNew, c, "closed") ELSE csNew
  /\ idle' = IF skip \/ (csNew[c] = "dead" /\ ~keep) THEN idle ELSE Append(idle, c)
  /\ log' = Upd(log, r, log[r] \o events \o (IF skip THEN <<>> ELSE <<"RELEASE">>))

\* finally { client.release() }: the pool takes the client back; a client
\* whose connection is lost is either removed from the pool (keep = FALSE)
\* or, in pools that do not check, put back as it is (keep = TRUE).
Finally(r, csNew, keep, events) ==
  LET c == client[r] IN
  /\ holder' = Upd(holder, c, 0)
  /\ cs' = IF csNew[c] = "dead" /\ ~keep THEN Upd(csNew, c, "closed") ELSE csNew
  /\ idle' = IF csNew[c] = "dead" /\ ~keep THEN idle ELSE Append(idle, c)
  /\ log' = Upd(log, r, log[r] \o events \o <<"RELEASE">>)

Keeps(csNew, c) == IF csNew[c] = "dead" THEN BOOLEAN ELSE {FALSE}


\* ------------------------------------------------------------- actions
\* Express calls the handler; it calls pool.connect() and suspends.
Arrive(r, b) ==
  /\ pc[r] = "idle"
  /\ pc' = Upd(pc, r, "connect")
  /\ req' = Upd(req, r, b)
  /\ arrivals' = arrivals + 1
  /\ UNCHANGED <<ep, client, err, photoId, photoUrl, br, resp, log, cs, holder,
                 idle, pendPhotos, pendBookings, photos, bookings,
                 nextPhotoId, nextBookingId>>

\* Requests served one at a time.
ArriveSeq(r) ==
  /\ arrivals < MaxReqs
  /\ \A q \in Reqs : pc[q] = "idle"
  /\ r = Min(Reqs)
  /\ \E b \in SeqBodies : Arrive(r, b)

\* A single request with any body of Bodies.
ArriveV(r) ==
  /\ arrivals = 0
  /\ r = Min(Reqs)
  /\ \E b \in Bodies : Arrive(r, b)

\* (variant: a pool that hands an idle client out and keeps it listed as idle)
ConnectShared(r) ==
  /\ pc[r] = "connect"
  /\ \/ /\ idle # <<>>
        /\ client' = Upd(client, r, idle[Len(idle)])
        /\ holder' = Upd(holder, idle[Len(idle)], r)
        /\ idle' = idle
        /\ cs' = cs
     \/ /\ idle = <<>>
        /\ Closed # {}
        /\ client' = Upd(client, r, Min(Closed))
        /\ holder' = Upd(holder, Min(Closed), r)
        /\ cs' = Upd(cs, Min(Closed), "none")
        /\ idle' = idle
  /\ pc' = Upd(pc, r, "validate")
  /\ log' = Upd(log, r, Append(log[r], "CONNECT"))
  /\ UNCHANGED <<ep, req, err, photoId, photoUrl, br, resp, pendPhotos,
                 pendBookings, photos, bookings, nextPhotoId, nextBookingId,
                 arrivals>>

\* pool.connect() resolves: the most recently released idle client, or a
\* newly opened connection while the pool is below its size.
Connect(r) ==
  /\ pc[r] = "connect"
  /\ \/ /\ idle # <<>>
        /\ client' = Upd(client, r, idle[Len(idle)])
        /\ holder' = Upd(holder, idle[Len(idle)], r)
        /\ idle' = SubSeq(idle, 1, Len(idle) - 1)
        /\ cs' = cs
     \/ /\ idle = <<>>
        /\ Closed # {}
        /\ client' = Upd(client, r, Min(Closed))
        /\ holder' = Upd(holder, Min(Closed), r)
        /\ cs' = Upd(cs, Min(Closed), "none")
        /\ idle' = idle
  /\ pc' = Upd(pc, r, "validate")
  /\ log' = Upd(log, r, Append(log[r], "CONNECT"))
  /\ UNCHANGED <<ep, req, err, photoId, photoUrl, br, resp, pendPhotos,
                 pendBookings, photos, bookings, nextPhotoId, nextBookingId,
                 arrivals>>

\* pool.connect() rejects (a new connection cannot be opened).  The await
\* is outside the try block: the handler's promise rejects, the handler
\* sends nothing on res and there is no client to release.
ConnectFail(r) ==
  /\ pc[r] = "connect"
  /\ idle = <<>>
  /\ Closed # {}
  /\ pc' = Upd(pc, r, "crashed")
  /\ log' = Upd(log, r, Append(log[r], "CONNECT_FAILED"))
  /\ \E fw \in BOOLEAN : resp' = Unhandled(r, fw)
  /\ UNCHANGED <<ep, req, client, err, photoId, photoUrl, br, cs, holder,
                 idle, pendPhotos, pendBookings, photos, bookings,
                 nextPhotoId, nextBookingId, arrivals>>

\* Lines 132-156: destructure, validate, then issue BEGIN.  An early
\* return runs the finally block in the same turn.
Validate(r) ==
  /\ pc[r] = "validate"
  /\ IF ValidationError(req[r]) # NoMsg
     THEN /\ resp' = Upd(resp, r, Append(resp[r], ValidationResponse(ValidationError(req[r]))))
          /\ \E keep \in Keeps(cs, client[r]) : Finally(r, cs, keep, <<"RESPOND">>)
          /\ pc' = Upd(pc, r, "done")
     ELSE /\ pc' = Upd(pc, r, "begin")
          /\ log' = Upd(log, r, Append(log[r], "BEGIN"))
          /\ UNCHANGED <<resp, cs, holder, idle>>
  /\ UNCHANGED <<ep, req, client, err, photoId, photoUrl, br, pendPhotos,
                 pendBookings, photos, bookings, nextPhotoId, nextBookingId,
                 arrivals>>

\* await client.query('BEGIN') settles; on success the next statement is
\* issued: the photo INSERT if (photo_key), else the booking INSERT.
Begin(r) ==
  /\ pc[r] = "begin"
  /\ \E o \in Possible(client[r], BeginOutcomes) :
       /\ pc' = Upd(pc, r, AfterStmt(o, IF Truthy(req[r].photo_key)
                                        THEN "insertPhoto" ELSE "insertBooking"))
       /\ IF o = "ok"
          THEN /\ cs' = Upd(cs, client[r], IF cs[client[r]] = "none" THEN "open"
                                           ELSE cs[client[r]])
               /\ log' = Upd(log, r, Append(log[r], IF Truthy(req[r].photo_key)
                                                    THEN "INSERT_PHOTO"
                                                    ELSE "INSERT_BOOKING"))
               /\ UNCHANGED <<err, pendPhotos, pendBookings>>
          ELSE /\ cs' = Failed(client[r], o)
               /\ err' = Upd(err, r, StoreErr(o))
               /\ log' = Upd(log, r, log[r] \o <<"ERROR", "ROLLBACK">>)
               /\ pendPhotos' = Dropped(pendPhotos, client[r], o)
               /\ pendBookings' = Dropped(pendBookings, client[r], o)
  /\ UNCHANGED <<ep, req, client, photoId, photoUrl, br, resp, holder, idle,
                 photos, bookings, nextPhotoId, nextBookingId, arrivals>>

\* The photo INSERT settles; on success photoId is set and signPhotoUrl is
\* called at once (line 171), which either returns the URL or throws; then
\* the booking INSERT is issued.
InsertPhoto(r) ==
  /\ pc[r] = "insertPhoto"
  /\ \E o \in Possible(client[r], InsertOutcomes) :
       IF o = "ok"
       THEN /\ pendPhotos' = Upd(pendPhotos, client[r], pendPhotos[client[r]] \cup
                 {[id |-> nextPhotoId, s3_key |-> String(req[r].photo_key)]})
            /\ nextPhotoId' = nextPhotoId + 1
            /\ photoId' = Upd(photoId, r, nextPhotoId)
            /\ \/ /\ photoUrl' = Upd(photoUrl, r, signPhotoUrl(String(req[r].photo_key)))
                  /\ pc' = Upd(pc, r, "insertBooking")
                  /\ log' = Upd(log, r, log[r] \o <<"SIGN", "INSERT_BOOKING">>)
                  /\ err' = err
               \/ /\ String(req[r].photo_key) # ""
                  /\ photoUrl' = photoUrl
                  /\ pc' = Upd(pc, r, "rollback")
                  /\ log' = Upd(log, r, log[r] \o <<"SIGN", "ERROR", "ROLLBACK">>)
                  /\ err' = Upd(err, r, SignErr)
            /\ UNCHANGED <<cs, pendBookings>>
       ELSE /\ pc' = Upd(pc, r, AfterStmt(o, "insertBooking"))
            /\ cs' = Failed(client[r], o)
            /\ err' = Upd(err, r, StoreErr(o))
            /\ log' = Upd(log, r, log[r] \o <<"ERROR", "ROLLBACK">>)
            /\ pendPhotos' = Dropped(pendPhotos, client[r], o)
            /\ pendBookings' = Dropped(pendBookings, client[r], o)
            /\ UNCHANGED <<photoId, photoUrl, nextPhotoId>>
  /\ UNCHANGED <<ep, req, client, br, resp, holder, idle, photos, bookings,
                 nextBookingId, arrivals>>

\* The booking INSERT settles; on success COMMIT is issued.
InsertBooking(r) ==
  /\ pc[r] = "insertBooking"
  /\ \E o \in Possible(client[r], BookingOutcomes(req[r])) :
       /\ pc' = Upd(pc, r, AfterStmt(o, "commit"))
       /\ IF o = "ok"
          THEN /\ pendBookings' = Upd(pendBookings, client[r], pendBookings[client[r]] \cup
                    {BookingRow(req[r], nextBookingId, photoId[r])})
               /\ br' = Upd(br, r, {BookingRow(req[r], nextBookingId, photoId[r])})
               /\ nextBookingId' = nextBookingId + 1
               /\ log' = Upd(log, r, Append(log[r], "COMMIT"))
               /\ UNCHANGED <<cs, err, pendPhotos>>
          ELSE /\ cs' = Failed(client[r], o)
               /\ err' = Upd(err, r, StoreErr(o))
               /\ log' = Upd(log, r, log[r] \o <<"ERROR", "ROLLBACK">>)
               /\ pendPhotos' = Dropped(pendPhotos, client[r], o)
               /\ pendBookings' = Dropped(pendBookings, client[r], o)
               /\ UNCHANGED <<br, nextBookingId>>
  /\ UNCHANGED <<ep, req, client, photoId, photoUrl, resp, holder, idle, photos,
                 bookings, nextPhotoId, arrivals>>

\* COMMIT settles.  On success the rows become visible, 201 is sent and the
\* finally block releases the client.  A COMMIT the store refuses ends the
\* transaction without persisting anything.
Commit(r) ==
  /\ pc[r] = "commit"
  /\ \E o \in Possible(client[r], CommitOutcomes) :
       /\ pc' = Upd(pc, r, AfterStmt(o, "done"))
       /\ pendPhotos' = Upd(pendPhotos, client[r], {})
       /\ pendBookings' = Upd(pendBookings, client[r], {})
       /\ IF o = "ok"
          THEN /\ photos' = Committed(photos, pendPhotos, client[r])
               /\ bookings' = Committed(bookings, pendBookings, client[r])
               /\ resp' = Upd(resp, r, Append(resp[r], CreatedResponse(br[r], photoUrl[r])))
               /\ Finally(r, Upd(cs, client[r], "none"), FALSE, <<"RESPOND">>)
               /\ UNCHANGED err
          ELSE /\ cs' = Upd(cs, client[r], IF o = ConnLost THEN "dead" ELSE "none")
               /\ err' = Upd(err, r, StoreErr(o))
               /\ log' = Upd(log, r, log[r] \o <<"ERROR", "ROLLBACK">>)
               /\ UNCHANGED <<photos, bookings, resp, holder, idle>>
  /\ UNCHANGED <<ep, req, client, photoId, photoUrl, br, nextPhotoId,
                 nextBookingId, arrivals>>

\* (variant: a catch block that answers and releases without ROLLBACK)
RollbackOmitted(r) ==
  /\ pc[r] = "rollback"
  /\ resp' = Upd(resp, r, Append(resp[r], ErrorResponse(err[r])))
  /\ \E keep \in Keeps(cs, client[r]) : Finally(r, cs, keep, <<"RESPOND">>)
  /\ pc' = Upd(pc, r, "done")
  /\ UNCHANGED <<ep, req, client, err, photoId, photoUrl, br, pendPhotos,
                 pendBookings, photos, bookings, nextPhotoId, nextBookingId,
                 arrivals>>

\* The catch block: ROLLBACK settles.  On success the error response is
\* chosen by e.code; if ROLLBACK itself rejects, the catch block throws:
\* the handler sends no response.  Either way the finally block releases
\* the client.
Rollback(r) ==
  /\ pc[r] = "rollback"
  /\ \E o \in RollbackPossible(client[r]) :
       IF o = "ok"
       THEN /\ pendPhotos' = RollbackPending(pendPhotos, client[r])
            /\ pendBookings' = RollbackPending(pendBookings, client[r])
            /\ resp' = Upd(resp, r, Append(resp[r], ErrorResponse(err[r])))
            /\ Finally(r, Upd(cs, client[r], "none"), FALSE, <<"RESPOND">>)
            /\ pc' = Upd(pc, r, "done")
       ELSE /\ pendPhotos' = Upd(pendPhotos, client[r], {})
            /\ pendBookings' = Upd(pendBookings, client[r], {})
            /\ \E fw \in BOOLEAN : resp' = Unhandled(r, fw)
            /\ \E keep \in BOOLEAN :
                 Finally(r, Upd(cs, client[r], "dead"), keep, <<"ROLLBACK_FAILED">>)
            /\ pc' = Upd(pc, r, "crashed")
  /\ UNCHANGED <<ep, req, client, err, photoId, photoUrl, br, photos, bookings,
                 nextPhotoId, nextBookingId, arrivals>>

\* The activation is over; its frame is gone.
Retire(r) ==
  /\ pc[r] \in Final
  /\ pc' = Upd(pc, r, "idle")
  /\ req' = Upd(req, r, NoBody)
  /\ client' = Upd(client, r, NoConn)
  /\ err' = Upd(err, r, NoErr)
  /\ photoId' = Upd(photoId, r, NullId)
  /\ photoUrl' = Upd(photoUrl, r, Null)
  /\ br' = Upd(br, r, {})
  /\ resp' = Upd(resp, r, <<>>)
  /\ log' = Upd(log, r, <<>>)
  /\ UNCHANGED <<ep, cs, holder, idle, pendPhotos, pendBookings, photos, bookings,
                 nextPhotoId, nextBookingId, arrivals>>

Handler(r) ==
  \/ Connect(r) \/ ConnectFail(r) \/ Validate(r) \/ Begin(r) \/ InsertPhoto(r)
  \/ InsertBooking(r) \/ Commit(r) \/ Rollback(r) \/ Retire(r)

\* Requests one after another, store and pool carried over.
Next == \E r \in Reqs : ArriveSeq(r) \/ Handler(r)
Spec == Init /\ [][Next]_vars

\* Requests in flight together, interleaved at their awaits.  A new
\* request takes the lowest free activation, and the frame of a finished
\* activation is dropped before anything else runs.  Statements fail in
\* SpecC because the store refuses them; the loss of a connection is left
\* to Spec, where requests do not overlap.
NoneFinished == \A q \in Reqs : pc[q] \notin Final
NoLoss == \A c \in Conns : cs[c] # "dead"
ArriveC(r) ==
  /\ NoneFinished
  /\ arrivals < MaxReqs
  /\ \A q \in Reqs : q < r => pc[q] # "idle"
  /\ \E b \in ConcBodies(r) : Arrive(r, b)
ConnectC(r) == NoneFinished /\ Connect(r)
ConnectFailC(r) == NoneFinished /\ ConnectFail(r)
ValidateC(r) == NoneFinished /\ Validate(r)
BeginC(r) == NoneFinished /\ Begin(r) /\ NoLoss'
InsertPhotoC(r) == NoneFinished /\ InsertPhoto(r) /\ NoLoss'
InsertBookingC(r) == NoneFinished /\ InsertBooking(r) /\ NoLoss'
CommitC(r) == NoneFinished /\ Commit(r) /\ NoLoss'
RollbackC(r) == NoneFinished /\ Rollback(r) /\ NoLoss'
NextC ==
  \E r \in Reqs :
    \/ ArriveC(r) \/ ConnectC(r) \/ ConnectFailC(r) \/ ValidateC(r) \/ BeginC(r)
    \/ InsertPhotoC(r) \/ InsertBookingC(r) \/ CommitC(r) \/ RollbackC(r)
    \/ Retire(r)
SpecC == Init /\ [][NextC]_vars

\* One request with any body.
NextV == \E r \in Reqs : ArriveV(r) \/ Handler(r)
SpecV == Init /\ [][NextV]_vars

\* ---------------------------------------------------- other endpoints
\* GET /health (lines 68-78).  pool.query checks a client out, runs the
\* query on it and gives it back; a client whose query failed is given
\* back with the error and the pool closes it.
ConnectErr == [code |-> "ECONNREFUSED", detail |-> "", message |-> "connect ECONNREFUSED"]
HealthOk == Reply(200, True, Undef, Undef, Undef, Str("now"))
HealthError(e) == Reply(500, False, Str(e.message), Undef, Undef, Undef)

\* pool.query('SELECT NOW()') obtains its client.
HealthStart ==
  /\ \/ /\ idle # <<>>
        /\ holder' = Upd(holder, idle[Len(idle)], HealthQuery)
        /\ idle' = SubSeq(idle, 1, Len(idle) - 1)
        /\ cs' = cs
     \/ /\ idle = <<>>
        /\ Closed # {}
        /\ holder' = Upd(holder, Min(Closed), HealthQuery)
        /\ cs' = Upd(cs, Min(Closed), "none")
        /\ idle' = idle
  /\ UNCHANGED <<pc, req, client, err, photoId, photoUrl, br, resp, log,
                 pendPhotos, pendBookings, photos, bookings, nextPhotoId,
                 nextBookingId, arrivals, ep>>

\* pool.query rejects because no connection can be opened.
HealthNoClient ==
  /\ idle = <<>>
  /\ Closed # {}
  /\ ep' = [ep EXCEPT !.health = HealthError(ConnectErr)]
  /\ UNCHANGED <<pc, req, client, err, photoId, photoUrl, br, resp, log, cs,
                 holder, idle, pendPhotos, pendBookings, photos, bookings,
                 nextPhotoId, nextBookingId, arrivals>>

\* The query on client c settles and the response is sent.
Health(c) ==
  /\ holder[c] = HealthQuery
  /\ \E o \in Possible(c, BeginOutcomes) :
       IF o = "ok"
       THEN /\ ep' = [ep EXCEPT !.health = HealthOk]
            /\ idle' = Append(idle, c)
            /\ cs' = cs
       ELSE /\ ep' = [ep EXCEPT !.health = HealthError(StoreErr(o))]
            /\ idle' = idle
            /\ cs' = Upd(cs, c, "closed")
  /\ holder' = Upd(holder, c, 0)
  /\ UNCHANGED <<pc, req, client, err, photoId, photoUrl, br, resp, log,
                 pendPhotos, pendBookings, photos, bookings, nextPhotoId,
                 nextBookingId, arrivals>>

\* POST /photos/presign (lines 85-120).
FilenameVals == {Undef, Str("a.png")}
NowVals == {"1700000000000"}
RandomVals == {"k3j2x"}
Filename(fn) == IF fn = Undef THEN "photo.jpg" ELSE String(fn)
PresignKey(now, rnd, fn) == "bookings/" \o now \o "-" \o rnd \o "-" \o Filename(fn)
\* (variant: the credential is requested for the default file name)
PresignedPostDefault(key) ==
  [url |-> "https://s3.amazonaws.com/BUCKET", fields |-> [key |-> "bookings/photo.jpg"]]
\* What s3.createPresignedPost hands to its callback for Fields: { key }.
PresignedPost(key) ==
  [url |-> "https://s3.amazonaws.com/BUCKET", fields |-> [key |-> key]]
PresignOk(key) == Reply(200, Undef, Undef, Str(key), PresignedPost(key), Undef)
PresignFailed == Reply(500, Undef, Str("presign_failed"), Undef, Undef, Undef)

Presign(fn, now, rnd) ==
  /\ \/ ep' = [ep EXCEPT !.presign = PresignOk(PresignKey(now, rnd, fn))]
     \/ ep' = [ep EXCEPT !.presign = PresignFailed]
  /\ UNCHANGED <<pc, req, client, err, photoId, photoUrl, br, resp, log, cs,
                 holder, idle, pendPhotos, pendBookings, photos, bookings,
                 nextPhotoId, nextBookingId, arrivals>>

\* The three endpoints of the service, with one booking request.
ArriveE(r) ==
  /\ arrivals = 0
  /\ r = Min(Reqs)
  /\ \E b \in ConcBodies(r) : Arrive(r, b)
NextE ==
  \/ \E r \in Reqs : ArriveE(r) \/ Handler(r)
  \/ HealthStart \/ HealthNoClient
  \/ \E c \in Conns : Health(c)
  \/ \E fn \in FilenameVals, now \in NowVals, rnd \in RandomVals : Presign(fn, now, rnd)
SpecE == Init /\ [][NextE]_vars


\* The pool under load: booking requests, valid and invalid, in flight
\* together with a health query, all drawing clients from the same pool.
\* The frame of a finished activation is dropped before anything else runs.
\* In SpecP a connection is lost only while a ROLLBACK or the health query
\* is in flight; its client is then released dead, or closed by the pool.
PoolBodies(r) ==
  {[shift_id |-> Num(SlotShift[r]), type |-> ty, lat |-> Undef, lng |-> Undef,
    photo_key |-> Undef, taken_at |-> Undef] : ty \in {Str("on"), Undef}}
ArriveP(r) ==
  /\ NoneFinished
  /\ arrivals < MaxReqs
  /\ \A q \in Reqs : q < r => pc[q] # "idle"
  /\ \E b \in PoolBodies(r) : Arrive(r, b)
NoNewLoss == \A c \in Conns : cs'[c] = "dead" => cs[c] = "dead"
BeginP(r) == NoneFinished /\ Begin(r) /\ NoNewLoss
InsertBookingP(r) == NoneFinished /\ InsertBooking(r) /\ NoNewLoss
CommitP(r) == NoneFinished /\ Commit(r) /\ NoNewLoss
RollbackP(r) == NoneFinished /\ Rollback(r)
HealthStartP ==
  /\ NoneFinished
  /\ \A c \in Conns : holder[c] # HealthQuery
  /\ HealthStart
HealthP(c) == NoneFinished /\ Health(c)
NextP ==
  \/ \E r \in Reqs :
       \/ ArriveP(r) \/ ConnectC(r) \/ ConnectFailC(r) \/ ValidateC(r) \/ BeginP(r)
       \/ InsertBookingP(r) \/ CommitP(r) \/ RollbackP(r) \/ Retire(r)
  \/ HealthStartP
  \/ \E c \in Conns : HealthP(c)
SpecP == Init /\ [][NextP]_vars

\* =============================================================== claims
Count(seq, e) == Cardinality({i \in DOMAIN seq : seq[i] = e})
Connected(r) == Count(log[r], "CONNECT") = 1
PhotoPersisted(id) == \E p \in photos : p.id = id
BookingPersistedFor(id) == \E b \in bookings : b.photo_id = id

\* C1: POST /bookings is atomic.  In every reachable state each committed
\* Photo row is referenced by a committed Booking row and each committed
\* Booking with a photo_id has its Photo row; and a finished request that
\* inserted a Photo row ends with both its Photo row and its Booking row
\* persisted or with neither, whatever step failed.
C1_Atomic ==
  /\ \A p \in photos : BookingPersistedFor(p.id)
  /\ \A b \in bookings : b.photo_id # NullId => PhotoPersisted(b.photo_id)
  /\ \A r \in Reqs :
       (pc[r] \in Final /\ photoId[r] # NullId) =>
         /\ PhotoPersisted(photoId[r]) <=> (br[r] # {} /\ br[r] \subseteq bookings)
         /\ PhotoPersisted(photoId[r]) <=> BookingPersistedFor(photoId[r])

\* A request whose Photo insert succeeded and whose Booking insert hit the
\* foreign key has finished with nothing of its own persisted, while the
\* pair of an earlier request is in the store.
C1_Witness ==
  \E r \in Reqs :
    /\ pc[r] = "done"
    /\ photoId[r] # NullId
    /\ err[r].code = FK
    /\ ~PhotoPersisted(photoId[r])
    /\ photos # {}
    /\ bookings # {}

\* ---- request classes used by the claims about validation
Absent(x) == x \in {Undef, Null, Str("")}
\* a string that is not the text of a number
NonNumeric(x) == x.t = "string" /\ x.v # "" /\ x.v \notin NumericText
\* The kinds of invalid body the specification lists: shift_id or type
\* missing, type that does not read "on"/"off", non-numeric lat or lng.
\* (A non-string type is judged by its string form here; whether it should
\* be accepted is the subject of C13.)
InvalidBody(q) ==
  \/ Absent(q.shift_id) \/ Absent(q.type)
  \/ String(q.type) \notin {"on", "off"}
  \/ NonNumeric(q.lat) \/ NonNumeric(q.lng)
ValidationMsgs == {Str(MsgRequired), Str(MsgType), Str(MsgCoord)}
Rejected(r) == resp[r] # <<>> /\ resp[r][1].error \in ValidationMsgs
PastValidation(r) == Connected(r) /\ pc[r] \notin {"idle", "connect", "validate"}
StoreUntouched ==
  /\ photos = {} /\ bookings = {}
  /\ \A c \in Conns : pendPhotos[c] = {} /\ pendBookings[c] = {}
  /\ nextPhotoId = 1 /\ nextBookingId = 1

\* C2: a request that fails validation (its body is of one of the invalid
\* kinds, or the handler answered with a validation error) never has BEGIN
\* or an INSERT issued for it, leaves the store as it was, and is answered
\* with status 400 exactly.
C2_InvalidNoTxn ==
  \A r \in Reqs :
    (PastValidation(r) /\ (InvalidBody(req[r]) \/ Rejected(r))) =>
      /\ Count(log[r], "BEGIN") = 0
      /\ Count(log[r], "INSERT_PHOTO") = 0
      /\ Count(log[r], "INSERT_BOOKING") = 0
      /\ Count(log[r], "COMMIT") = 0
      /\ StoreUntouched
      /\ Len(resp[r]) = 1
      /\ resp[r][1].status = 400
      /\ resp[r][1].error \in ValidationMsgs

\* A request with valid shift_id and type and a non-numeric lat has been
\* answered 400.
C2_Witness ==
  \E r \in Reqs :
    /\ pc[r] = "done"
    /\ req[r].shift_id = Num("1") /\ req[r].type = Str("off")
    /\ req[r].lat = Str("abc")
    /\ req[r].photo_key = Str("k1")
    /\ resp[r][1].status = 400
    /\ Count(log[r], "BEGIN") = 0

\* The first failing check of a body, by the order the specification gives,
\* with the error each check is claimed to send.
FirstFailure(q, eReq, eType, eCoord) ==
  IF ~Truthy(q.shift_id) \/ ~Truthy(q.type) THEN Str(eReq)
  ELSE IF String(q.type) \notin {"on", "off"} THEN Str(eType)
  ELSE IF \E x \in {q.lat, q.lng} : x \notin {Undef, Null} /\ Number(x) = "NaN"
       THEN Str(eCoord)
  ELSE Undef

Answered(r, e) ==
  IF e = Undef THEN ~Rejected(r)
  ELSE resp[r] # <<>> /\ resp[r][1].status = 400 /\ resp[r][1].error = e

NothingPersisted(r) ==
  /\ br[r] \cap bookings = {}
  /\ photoId[r] # NullId => ~PhotoPersisted(photoId[r])
  /\ \A c \in Conns : holder[c] # r
FkResponse(e) ==
  [status |-> 400, ok |-> False, error |-> Str("foreign_key_violation"),
   detail |-> Str(e.detail), booking |-> {}, photo_url |-> Undef]
ServerErrorResponse ==
  [status |-> 500, ok |-> False, error |-> Str("server_error"),
   detail |-> Undef, booking |-> {}, photo_url |-> Undef]

\* C4: when the store reports a foreign-key violation (23503) at any step
\* of the transaction, the finished request has persisted nothing and the
\* client has received exactly 400 foreign_key_violation with the store's
\* detail.
C4_FkViolation400 ==
  \A r \in Reqs :
    (pc[r] \in Final /\ err[r].code = FK) =>
      /\ NothingPersisted(r)
      /\ resp[r] = <<FkResponse(err[r])>>

\* C5: when BEGIN, an INSERT or COMMIT fails with any store or transport
\* error other than a foreign-key violation, the finished request has
\* persisted nothing and the client has received exactly 500 server_error
\* without detail.
C5_OtherFailure500 ==
  \A r \in Reqs :
    (pc[r] \in Final /\ err[r].code \in {Internal, ConnLost}) =>
      /\ NothingPersisted(r)
      /\ resp[r] = <<ServerErrorResponse>>

\* C6: a call that acquired a client holds it until it ends and releases it
\* exactly once, as its last act, on every exit path: no finished call
\* still holds a connection, also when ROLLBACK itself failed.
C6_ReleasedOnce ==
  \A r \in Reqs :
    Connected(r) =>
      IF pc[r] \in Final
      THEN /\ Count(log[r], "RELEASE") = 1
           /\ log[r][Len(log[r])] = "RELEASE"
           /\ \A c \in Conns : holder[c] # r
      ELSE /\ Count(log[r], "RELEASE") = 0
           /\ holder[client[r]] = r

\* A call whose ROLLBACK failed has ended with its client released.
C6_Witness ==
  \E r \in Reqs :
    /\ pc[r] = "crashed"
    /\ Count(log[r], "ROLLBACK_FAILED") = 1
    /\ log[r][Len(log[r])] = "RELEASE"
    /\ holder[client[r]] = 0

\* C7: in the record of a call, no COMMIT is issued after an error was
\* detected, and an error response of the catch block is preceded by the
\* ROLLBACK.
C7_NoCommitAfterError ==
  \A r \in Reqs :
    /\ \A i, j \in DOMAIN log[r] :
         (log[r][i] = "ERROR" /\ i < j) => log[r][j] # "COMMIT"
    /\ \A j \in DOMAIN log[r] :
         (log[r][j] = "RESPOND" /\ err[r] # NoErr) =>
            \E i \in DOMAIN log[r] : i < j /\ log[r][i] = "ROLLBACK"
    /\ (err[r] # NoErr /\ pc[r] \in Final) => br[r] \cap bookings = {}

\* The booking INSERT failed after a Photo insert, ROLLBACK was issued and
\* the error response sent.
C7_Witness ==
  \E r \in Reqs :
    /\ pc[r] = "done"
    /\ err[r].code = Internal
    /\ log[r] = <<"CONNECT", "BEGIN", "INSERT_PHOTO", "SIGN", "INSERT_BOOKING",
                  "ERROR", "ROLLBACK", "RESPOND", "RELEASE">>

\* C8: the signed read-URL is requested only after COMMIT was issued and
\* succeeded: in the record of a call every SIGN comes after a COMMIT, and
\* a call that requested a URL is never rolled back.
C8_SignAfterCommit ==
  \A r \in Reqs :
    /\ \A j \in DOMAIN log[r] :
         log[r][j] = "SIGN" => \E i \in DOMAIN log[r] : i < j /\ log[r][i] = "COMMIT"
    /\ Count(log[r], "SIGN") > 0 => Count(log[r], "ROLLBACK") = 0

\* C9: when signing the read-URL fails, the request still succeeds: the
\* Photo and Booking rows are committed and the response is 201 with
\* photo_url null.
C9_SignFailureDegrades ==
  \A r \in Reqs :
    (pc[r] \in Final /\ err[r] = SignErr) =>
      /\ PhotoPersisted(photoId[r])
      /\ br[r] # {} /\ br[r] \subseteq bookings
      /\ Len(resp[r]) = 1
      /\ resp[r][1].status = 201
      /\ resp[r][1].photo_url = Null

\* C10: a call answered 201 issued exactly one booking INSERT and one photo
\* INSERT if photo_key is non-empty, none otherwise; the store holds
\* exactly those rows; the Booking's photo_id is the id of that Photo row,
\* or null without photo_key, and then photo_url is null too.
HasPhotoKey(q) == ~Absent(q.photo_key)
C10_OneBookingOnePhoto ==
  \A r \in Reqs :
    (resp[r] # <<>> /\ resp[r][1].status = 201) =>
      /\ Len(resp[r]) = 1
      /\ Count(log[r], "INSERT_BOOKING") = 1
      /\ Count(log[r], "INSERT_PHOTO") = (IF HasPhotoKey(req[r]) THEN 1 ELSE 0)
      /\ Cardinality(br[r]) = 1
      /\ bookings = br[r]
      /\ resp[r][1].booking = br[r]
      /\ \A b \in br[r] :
           IF HasPhotoKey(req[r])
           THEN /\ b.photo_id # NullId
                /\ b.photo_id = photoId[r]
                /\ photos = {[id |-> b.photo_id, s3_key |-> String(req[r].photo_key)]}
           ELSE /\ b.photo_id = NullId
                /\ photos = {}
                /\ resp[r][1].photo_url = Null

\* A call with a photo_key has been answered 201 with its linked pair.
C10_Witness ==
  \E r \in Reqs :
    /\ pc[r] = "done"
    /\ resp[r][1].status = 201
    /\ req[r].photo_key = Str("k1")
    /\ \E b \in bookings : b.photo_id = photoId[r] /\ PhotoPersisted(b.photo_id)
    /\ resp[r][1].photo_url.t = "string"

\* ---- C11
\* The instant a taken_at text denotes ("" when it is not a timestamp).
TimestampOf(x) ==
  IF x \in {Str("2024-01-01"), Str("2024-01-01T00:00:00.000Z")}
  THEN "2024-01-01T00:00:00.000Z" ELSE ""
PassesChecks(q) == FirstFailure(q, MsgRequired, MsgType, MsgCoord) = Undef

\* C11: taken_at never causes a rejection: a body that passes the three
\* checks goes on to BEGIN whatever its taken_at, and a rejected body fails
\* one of the three checks; the Booking row's captured_at is the instant
\* taken_at denotes when it parses, and the server's NOW() when taken_at is
\* absent or does not parse.
C11_TakenAtLenient ==
  \A r \in Reqs :
    PastValidation(r) =>
      /\ PassesChecks(req[r]) => Count(log[r], "BEGIN") = 1
      /\ Rejected(r) => ~PassesChecks(req[r])
      /\ \A b \in br[r] :
           b.captured_at = IF TimestampOf(req[r].taken_at) # ""
                           THEN TimestampOf(req[r].taken_at) ELSE "NOW()"

\* A request with taken_at "not-a-date" has been answered 201 and its row,
\* stamped with the server time, is persisted.
C11_Witness ==
  \E r \in Reqs :
    /\ pc[r] = "done"
    /\ req[r].taken_at = Str("not-a-date")
    /\ resp[r][1].status = 201
    /\ \E b \in bookings : b \in br[r] /\ b.captured_at = "NOW()"

\* ---- C12, C13
Finite(n) == n \notin {"NaN", "Infinity", "-Infinity"}
Coords(q) == {q.lat, q.lng}
RequiredAndTypeOk(q) ==
  Truthy(q.shift_id) /\ Truthy(q.type) /\ String(q.type) \in {"on", "off"}
\* the stored coordinate claimed for a request value that is accepted
StoredAs(x, y) ==
  /\ x = Undef => y = Null
  /\ (x.t = "string" /\ x.v \in NumericText) => y = Num(x.v)

\* C12: an absent lat/lng is stored as null, a numeric string is stored as
\* its number, and a request with a present lat or lng that does not
\* convert to a finite number is rejected with the coordinate error (the
\* message of the check C3 names invalid_coordinate), no BEGIN issued and
\* nothing written.
C12_FiniteCoordinates ==
  \A r \in Reqs :
    (PastValidation(r) /\ RequiredAndTypeOk(req[r])) =>
      /\ (\E x \in Coords(req[r]) : x # Undef /\ ~Finite(Number(x))) =>
           /\ Answered(r, Str(MsgCoord))
           /\ Count(log[r], "BEGIN") = 0
           /\ StoreUntouched
      /\ \A b \in br[r] : StoredAs(req[r].lat, b.lat) /\ StoredAs(req[r].lng, b.lng)

\* C13: a request whose type is not exactly the string "on" or "off" is
\* answered with a client error and writes nothing, whatever its other
\* fields.
C13_ExactType ==
  \A r \in Reqs :
    (PastValidation(r) /\ req[r].type \notin {Str("on"), Str("off")}) =>
      /\ Len(resp[r]) = 1
      /\ resp[r][1].status = 400
      /\ Count(log[r], "BEGIN") = 0
      /\ StoreUntouched

\* ---- C14
Holding(r) ==
  pc[r] \in {"validate", "begin", "insertPhoto", "insertBooking", "commit", "rollback"}
Succeeded(r) == Connected(r) /\ PassesChecks(req[r]) /\ Count(log[r], "ERROR") = 0
\* The outcome of a finished request, told from its own body and the
\* results of its own statements only.
OwnOutcome(r) ==
  /\ (Connected(r) /\ ~PassesChecks(req[r])) =>
        resp[r] = <<ValidationResponse(ValidationError(req[r]))>>
  /\ Succeeded(r) =>
        /\ resp[r] = <<CreatedResponse(br[r], photoUrl[r])>>
        /\ br[r] # {} /\ br[r] \subseteq bookings
        /\ photoId[r] # NullId => PhotoPersisted(photoId[r])
  /\ (Connected(r) /\ PassesChecks(req[r]) /\ Number(req[r].shift_id) \notin Shifts) =>
        /\ err[r] # NoErr
        /\ NothingPersisted(r)
  /\ (err[r].code = FK /\ Count(log[r], "ROLLBACK_FAILED") = 0) =>
        resp[r] = <<FkResponse(err[r])>>
  /\ err[r] # NoErr => NothingPersisted(r)
IsolatedState ==
  /\ \A p \in photos : BookingPersistedFor(p.id)
  /\ \A b \in bookings : b.photo_id # NullId => PhotoPersisted(b.photo_id)
  /\ \A r \in Reqs : pc[r] \in Final => OwnOutcome(r)
\* A step changes the uncommitted rows of a session only if it is a step
\* of the request holding that session; committed rows are never removed,
\* and they are added only by the COMMIT of a request, which adds exactly
\* that request's rows.
IsolatedStep ==
  /\ \A c \in Conns :
       (pendPhotos'[c] # pendPhotos[c] \/ pendBookings'[c] # pendBookings[c]) =>
          \E r \in Reqs : holder[c] = r /\ Holding(r) /\ pc'[r] # pc[r]
  /\ photos \subseteq photos' /\ bookings \subseteq bookings'
  /\ (photos' # photos \/ bookings' # bookings) =>
        \E r \in Reqs :
          /\ pc[r] = "commit" /\ pc'[r] = "done"
          /\ photos' = photos \cup pendPhotos[client[r]]
          /\ bookings' = bookings \cup pendBookings[client[r]]
          /\ bookings' \ bookings = br[r]

\* C14: under every interleaving of concurrent requests for distinct
\* shifts, the Photo/Booking pairs stay atomic, a ROLLBACK (like every
\* other step) touches only the uncommitted rows of its own request and
\* never committed rows, and the outcome of a finished request (success,
\* validation error, foreign-key error) follows from its own body and its
\* own statements, whatever the other requests did.
C14_Independent == [] IsolatedState /\ [][IsolatedStep]_vars

\* Two requests are in flight with uncommitted rows on different sessions:
\* one is about to roll back, the other about to commit.
C14_Witness ==
  \E r, q \in Reqs :
    /\ r # q
    /\ pc[r] = "rollback" /\ pendPhotos[client[r]] # {}
    /\ pc[q] = "commit" /\ pendBookings[client[q]] # {}
    /\ client[r] # client[q]

\* ---- C15
RawMessages ==
  {StoreErr(c).message : c \in {FK, Internal, ConnLost}}
    \cup {ConnectErr.message, SignErr.message}
ErrorShape(x) ==
  x.status >= 400 =>
    /\ x.ok = False
    /\ x.error.t = "string"
    /\ x.error.v \notin RawMessages

\* C15: every error response of GET /health, POST /photos/presign and
\* POST /bookings carries ok: false and an error field, and the error is
\* never the raw message of the store or of the driver.
C15_ErrorShape ==
  /\ ErrorShape(ep.health)
  /\ ErrorShape(ep.presign)
  /\ \A r \in Reqs : \A i \in DOMAIN resp[r] : ErrorShape(resp[r][i])

\* ---- C16
StoreAndPool ==
  <<cs, holder, idle, pendPhotos, pendBookings, photos, bookings, nextPhotoId,
    nextBookingId>>
PresignAnswer ==
  /\ ep.presign.status = 200 =>
       /\ ep.presign.key.t = "string"
       /\ ep.presign.presigned.fields.key = ep.presign.key.v
       /\ \E fn \in FilenameVals, now \in NowVals, rnd \in RandomVals :
            ep.presign.key.v = "bookings/" \o now \o "-" \o rnd \o "-" \o
                                 (IF fn = Undef THEN "photo.jpg" ELSE fn.v)
  /\ ep.presign.status \notin {0, 200} =>
       /\ ep.presign.status = 500
       /\ ep.presign.error = Str("presign_failed")
       /\ ep.presign.key = Undef /\ ep.presign.presigned = Undef
PresignStep == ep'.presign # ep.presign => UNCHANGED StoreAndPool

\* C16: POST /photos/presign answers with the generated key and the
\* credential issued for exactly that key; when the object store call
\* fails the answer is 500 presign_failed; answering never touches the
\* store or the pool.
C16_Presign == [] PresignAnswer /\ [][PresignStep]_vars

\* A presign for a named file has been answered while a booking
\* transaction with an uncommitted photo row was open.
C16_Witness ==
  /\ ep.presign.status = 200
  /\ ep.presign.key = Str(PresignKey("1700000000000", "k3j2x", Str("a.png")))
  /\ \E c \in Conns : cs[c] = "open" /\ pendPhotos[c] # {}

\* ---- C17
\* C17: every POST /bookings request that is over has received exactly
\* one response.
C17_ExactlyOneResponse == \A r \in Reqs : pc[r] \in Final => Len(resp[r]) = 1

\* ---- C18
Began(r) == Count(log[r], "BEGIN") = 1
Released(r) == Count(log[r], "RELEASE") = 1
Has201(r) == \E i \in DOMAIN resp[r] : resp[r][i].status = 201
ClosedBySuccess(r) ==
  \/ Has201(r)
  \/ Count(log[r], "ROLLBACK") = 1 /\ Count(log[r], "ROLLBACK_FAILED") = 0
OutsideTransaction(c) ==
  /\ cs[c] \in {"closed", "none", "dead"}
  /\ pendPhotos[c] = {} /\ pendBookings[c] = {}

\* C18 as stated: whenever the client has been released after BEGIN, a
\* COMMIT or a ROLLBACK has succeeded on it.
C18_Original == \A r \in Reqs : (Began(r) /\ Released(r)) => ClosedBySuccess(r)

\* C18, amended: a connection that nobody holds has no transaction open or
\* aborted and no uncommitted rows; a released client whose transaction
\* was closed neither by a successful COMMIT nor by a successful ROLLBACK
\* is one whose connection was lost; the client handed to a request is
\* outside any transaction when the handler issues BEGIN.
C18_NoOpenTransaction ==
  /\ \A c \in Conns : holder[c] = 0 => OutsideTransaction(c)
  /\ \A r \in Reqs :
       (pc[r] \in Final /\ Began(r) /\ Released(r) /\ ~ClosedBySuccess(r)) =>
          /\ cs[client[r]] \in {"dead", "closed"}
          /\ err[r] # NoErr
          /\ NothingPersisted(r)
  /\ \A r \in Reqs : pc[r] \in {"validate", "begin"} => OutsideTransaction(client[r])

\* A client was released after its ROLLBACK failed and stayed in the pool;
\* the next request has been handed that client and has issued BEGIN.
C18_Witness ==
  \E r \in Reqs :
    /\ pc[r] = "begin" /\ cs[client[r]] = "dead"
    /\ arrivals > 1

\* ---- C19
\* C19: a 201 response exists only when COMMIT has succeeded: the booking
\* row it returns, and the photo row when there is one, are persisted;
\* a request whose COMMIT (or any other statement) failed has no 201.
C19_CreatedAfterCommit ==
  \A r \in Reqs :
    /\ Has201(r) =>
         /\ br[r] # {} /\ br[r] \subseteq bookings
         /\ photoId[r] # NullId => PhotoPersisted(photoId[r])
         /\ err[r] = NoErr
         /\ pc[r] = "done"
         /\ resp[r] = <<CreatedResponse(br[r], photoUrl[r])>>
    /\ err[r] # NoErr => ~Has201(r)

\* A 201 has been sent for a booking with a photo.
C19_Witness ==
  \E r \in Reqs : Has201(r) /\ photoId[r] # NullId /\ PhotoPersisted(photoId[r])

\* ---- C20
Range(seq) == {seq[i] : i \in DOMAIN seq}
Held == {c \in Conns : holder[c] # 0}
AllCompleted == \A r \in Reqs : pc[r] \in Final \cup {"idle"}

\* C20: no two requests in flight hold the same pool client, a client that
\* is checked out is not at the same time idle in the pool, no more
\* clients are held than the pool has, and once every booking request is
\* over no client is held by one: each connection is idle in the pool or
\* closed, so that the pool can hand one out again.
C20_PoolDiscipline ==
  /\ \A r \in Reqs : Holding(r) => client[r] \in Conns /\ holder[client[r]] = r
  /\ \A r, q \in Reqs : (r # q /\ Holding(r) /\ Holding(q)) => client[r] # client[q]
  /\ \A c \in Held : c \notin Range(idle) /\ cs[c] # "closed"
  /\ Len(idle) = Cardinality(Range(idle))
  /\ Cardinality({r \in Reqs : Holding(r)}) <= Cardinality(Held)
  /\ Cardinality(Held) <= PoolSize
  /\ AllCompleted =>
       /\ \A c \in Conns : holder[c] \in {0, HealthQuery}
       /\ \A c \in Conns \ Held : c \in Range(idle) \/ cs[c] = "closed"
       /\ Held = {} => (idle # <<>> \/ Closed # {})

\* Every client of the pool is checked out and one more request waits for
\* pool.connect(); an earlier request is already over.
C20_Witness ==
  /\ Held = Conns
  /\ \E r, q \in Reqs : pc[r] = "connect" /\ Holding(q)
  /\ arrivals = MaxReqs

====
